---------------------------- MODULE Spec2Model ----------------------------
(***************************************************************************)
(* zaim-cli: the OAuth1.0a signing functions (src/src/oauth1a.rs,          *)
(* src/src/helper.rs), the token-endpoint response parsers and the         *)
(* transport call (src/src/zaim_api.rs) and the command-line run           *)
(* (src/src/main.rs).                                                      *)
(*                                                                         *)
(* A Rust String is the sequence of its UTF-8 bytes (naturals 0..255).     *)
(* An Option is a sequence of length 0 (None) or 1 (Some(x)).              *)
(* A HashMap<String, String> is a function whose domain is a finite set    *)
(* of strings.  A Result is a record with the field ok.                    *)
(***************************************************************************)
EXTENDS Integers, Sequences, FiniteSets, TLC

(***************************************************************************)
(* String literals of the program.                                         *)
(***************************************************************************)
\* "oauth_consumer_key"
S_oauth_consumer_key ==
    <<111, 97, 117, 116, 104, 95, 99, 111, 110, 115, 117, 109, 101, 114, 95,
    107, 101, 121>>
\* "oauth_signature_method"
S_oauth_signature_method ==
    <<111, 97, 117, 116, 104, 95, 115, 105, 103, 110, 97, 116, 117, 114, 101,
    95, 109, 101, 116, 104, 111, 100>>
\* "oauth_version"
S_oauth_version ==
    <<111, 97, 117, 116, 104, 95, 118, 101, 114, 115, 105, 111, 110>>
\* "oauth_nonce"
S_oauth_nonce ==
    <<111, 97, 117, 116, 104, 95, 110, 111, 110, 99, 101>>
\* "oauth_timestamp"
S_oauth_timestamp ==
    <<111, 97, 117, 116, 104, 95, 116, 105, 109, 101, 115, 116, 97, 109,
    112>>
\* "oauth_callback"
S_oauth_callback ==
    <<111, 97, 117, 116, 104, 95, 99, 97, 108, 108, 98, 97, 99, 107>>
\* "oauth_token"
S_oauth_token ==
    <<111, 97, 117, 116, 104, 95, 116, 111, 107, 101, 110>>
\* "oauth_verifier"
S_oauth_verifier ==
    <<111, 97, 117, 116, 104, 95, 118, 101, 114, 105, 102, 105, 101, 114>>
\* "oauth_signature"
S_oauth_signature ==
    <<111, 97, 117, 116, 104, 95, 115, 105, 103, 110, 97, 116, 117, 114,
    101>>
\* "oauth_token_secret"
S_oauth_token_secret ==
    <<111, 97, 117, 116, 104, 95, 116, 111, 107, 101, 110, 95, 115, 101, 99,
    114, 101, 116>>
\* "oauth_callback_confirmed"
S_oauth_callback_confirmed ==
    <<111, 97, 117, 116, 104, 95, 99, 97, 108, 108, 98, 97, 99, 107, 95, 99,
    111, 110, 102, 105, 114, 109, 101, 100>>
\* "HMAC-SHA1"
S_HMAC_SHA1 ==
    <<72, 77, 65, 67, 45, 83, 72, 65, 49>>
\* "1.0"
S_version_1_0 ==
    <<49, 46, 48>>
\* "oob"
S_oob ==
    <<111, 111, 98>>
\* "OAuth "
S_OAuth_prefix ==
    <<79, 65, 117, 116, 104, 32>>
\* "POST"
S_POST ==
    <<80, 79, 83, 84>>
\* "GET"
S_GET ==
    <<71, 69, 84>>
\* "PUT"
S_PUT ==
    <<80, 85, 84>>
\* "true"
S_true ==
    <<116, 114, 117, 101>>
\* "false"
S_false ==
    <<102, 97, 108, 115, 101>>
\* "https://api.zaim.net/v2/auth/request"
REQUEST_TOKEN_URL ==
    <<104, 116, 116, 112, 115, 58, 47, 47, 97, 112, 105, 46, 122, 97, 105,
    109, 46, 110, 101, 116, 47, 118, 50, 47, 97, 117, 116, 104, 47, 114, 101,
    113, 117, 101, 115, 116>>
\* "https://auth.zaim.net/users/auth"
AUTH_URL ==
    <<104, 116, 116, 112, 115, 58, 47, 47, 97, 117, 116, 104, 46, 122, 97,
    105, 109, 46, 110, 101, 116, 47, 117, 115, 101, 114, 115, 47, 97, 117,
    116, 104>>
\* "https://api.zaim.net/v2/auth/access"
ACCESS_TOKEN_URL ==
    <<104, 116, 116, 112, 115, 58, 47, 47, 97, 112, 105, 46, 122, 97, 105,
    109, 46, 110, 101, 116, 47, 118, 50, 47, 97, 117, 116, 104, 47, 97, 99,
    99, 101, 115, 115>>
\* "https://api.zaim.net/v2/home/user/verify"
VERIFY_USER_URL ==
    <<104, 116, 116, 112, 115, 58, 47, 47, 97, 112, 105, 46, 122, 97, 105,
    109, 46, 110, 101, 116, 47, 118, 50, 47, 104, 111, 109, 101, 47, 117,
    115, 101, 114, 47, 118, 101, 114, 105, 102, 121>>
\* "?oauth_token="
S_query_oauth_token ==
    <<63, 111, 97, 117, 116, 104, 95, 116, 111, 107, 101, 110, 61>>
\* "qazjrpypgj2dmk85rt2wdfgwidots6phmd8bn6qt"
T_CONSUMER_KEY ==
    <<113, 97, 122, 106, 114, 112, 121, 112, 103, 106, 50, 100, 109, 107, 56,
    53, 114, 116, 50, 119, 100, 102, 103, 119, 105, 100, 111, 116, 115, 54,
    112, 104, 109, 100, 56, 98, 110, 54, 113, 116>>
\* "0pgz53iyp7cajbaqtyhnjj3cbqivog5iil7wybvh"
T_CONSUMER_SECRET ==
    <<48, 112, 103, 122, 53, 51, 105, 121, 112, 55, 99, 97, 106, 98, 97, 113,
    116, 121, 104, 110, 106, 106, 51, 99, 98, 113, 105, 118, 111, 103, 53,
    105, 105, 108, 55, 119, 121, 98, 118, 104>>
\* "https://zaim.net/"
T_CALLBACK ==
    <<104, 116, 116, 112, 115, 58, 47, 47, 122, 97, 105, 109, 46, 110, 101,
    116, 47>>
\* "85877103587931253546137854859006"
T_NONCE ==
    <<56, 53, 56, 55, 55, 49, 48, 51, 53, 56, 55, 57, 51, 49, 50, 53, 51, 53,
    52, 54, 49, 51, 55, 56, 53, 52, 56, 53, 57, 48, 48, 54>>
\* "0pgz53iyp7cajbaqtyhnjj3cbqivog5iil7wybvh&"
T_ANS_SIGNING_KEY ==
    <<48, 112, 103, 122, 53, 51, 105, 121, 112, 55, 99, 97, 106, 98, 97, 113,
    116, 121, 104, 110, 106, 106, 51, 99, 98, 113, 105, 118, 111, 103, 53,
    105, 105, 108, 55, 119, 121, 98, 118, 104, 38>>
\* "POST&https%3A%2F%2Fapi.zaim.net%2Fv2%2Fauth%2Frequest&oauth_callback%3Dhttps%253A%252F%252Fzaim.net%252F%26oauth_consumer_key%3Dqazjrpypgj2dmk85rt2wdfgwidots6phmd8bn6qt%26oauth_nonce%3D85877103587931253546137854859006%26oauth_signature_method%3DHMAC-SHA1%26oauth_timestamp%3D1718193989%26oauth_version%3D1.0"
T_ANS_SIGNATURE_BASE_STRING ==
    <<80, 79, 83, 84, 38, 104, 116, 116, 112, 115, 37, 51, 65, 37, 50, 70,
    37, 50, 70, 97, 112, 105, 46, 122, 97, 105, 109, 46, 110, 101, 116, 37,
    50, 70, 118, 50, 37, 50, 70, 97, 117, 116, 104, 37, 50, 70, 114, 101,
    113, 117, 101, 115, 116, 38, 111, 97, 117, 116, 104, 95, 99, 97, 108,
    108, 98, 97, 99, 107, 37, 51, 68, 104, 116, 116, 112, 115, 37, 50, 53,
    51, 65, 37, 50, 53, 50, 70, 37, 50, 53, 50, 70, 122, 97, 105, 109, 46,
    110, 101, 116, 37, 50, 53, 50, 70, 37, 50, 54, 111, 97, 117, 116, 104,
    95, 99, 111, 110, 115, 117, 109, 101, 114, 95, 107, 101, 121, 37, 51, 68,
    113, 97, 122, 106, 114, 112, 121, 112, 103, 106, 50, 100, 109, 107, 56,
    53, 114, 116, 50, 119, 100, 102, 103, 119, 105, 100, 111, 116, 115, 54,
    112, 104, 109, 100, 56, 98, 110, 54, 113, 116, 37, 50, 54, 111, 97, 117,
    116, 104, 95, 110, 111, 110, 99, 101, 37, 51, 68, 56, 53, 56, 55, 55, 49,
    48, 51, 53, 56, 55, 57, 51, 49, 50, 53, 51, 53, 52, 54, 49, 51, 55, 56,
    53, 52, 56, 53, 57, 48, 48, 54, 37, 50, 54, 111, 97, 117, 116, 104, 95,
    115, 105, 103, 110, 97, 116, 117, 114, 101, 95, 109, 101, 116, 104, 111,
    100, 37, 51, 68, 72, 77, 65, 67, 45, 83, 72, 65, 49, 37, 50, 54, 111, 97,
    117, 116, 104, 95, 116, 105, 109, 101, 115, 116, 97, 109, 112, 37, 51,
    68, 49, 55, 49, 56, 49, 57, 51, 57, 56, 57, 37, 50, 54, 111, 97, 117,
    116, 104, 95, 118, 101, 114, 115, 105, 111, 110, 37, 51, 68, 49, 46, 48>>

(***************************************************************************)
(* Option, Result and HashMap.                                             *)
(***************************************************************************)
None == <<>>

Some(x) == <<x>>

is_some(o) == Len(o) = 1

unwrap(o) == o[1]

Ok(v) == [ok |-> TRUE, val |-> v]

Err(e) == [ok |-> FALSE, err |-> e]

EmptyMap == [k \in {} |-> <<>>]

\* HashMap::insert: the value stored under k is replaced.
insert(m, k, v) == (k :> v) @@ m

\* HashMap::extend: every pair of other is inserted into m.
extend(m, other) == other @@ m

\* String::pop: the last byte is removed; the empty string stays empty.
pop(s) == IF s = <<>> THEN s ELSE SubSeq(s, 1, Len(s) - 1)

RECURSIVE str_lt_from(_, _, _)
\* a < b, given that a and b agree before position i.
str_lt_from(a, b, i) ==
    IF i > Len(a) THEN i <= Len(b)
    ELSE IF i > Len(b) THEN FALSE
    ELSE IF a[i] = b[i] THEN str_lt_from(a, b, i + 1)
    ELSE a[i] < b[i]

\* Ord for String: byte-lexicographic order.
str_lt(a, b) == str_lt_from(a, b, 1)

RECURSIVE sort(_)
\* Vec::sort of the keys of a map (all distinct): ascending order.
sort(S) ==
    IF S = {} THEN <<>>
    ELSE LET m == CHOOSE x \in S : \A y \in S \ {x} : str_lt(x, y)
         IN  <<m>> \o sort(S \ {m})

(***************************************************************************)
(* src/src/helper.rs                                                       *)
(***************************************************************************)
\* percent_encoding::CONTROLS: 0x00..0x1F and 0x7F.
CONTROLS == (0..31) \cup {127}

\* CONTROLS with : / ? # [ ] @ ! $ & ' ( ) * + , ; = % added.
FRAGMENT ==
    CONTROLS \cup {58, 47, 63, 35, 91, 93, 64, 33, 36, 38,
                   39, 40, 41, 42, 43, 44, 59, 61, 37}

\* The set of the encoder without the percent sign.
should_percent_encode_but_percent(b) == b >= 128 \/ b \in (FRAGMENT \ {37})

\* AsciiSet::should_percent_encode: a non-ASCII byte or a byte of the set.
should_percent_encode(b) == b >= 128 \/ b \in FRAGMENT

\* One uppercase hexadecimal digit.
hex_digit(n) == IF n < 10 THEN 48 + n ELSE 55 + n

\* The %XX triplet of a byte, or the byte itself.
percent_encode_byte(b) ==
    IF should_percent_encode(b)
    THEN <<37, hex_digit(b \div 16), hex_digit(b % 16)>>
    ELSE <<b>>

RECURSIVE percent_encode_range(_, _, _)
\* The encoding of the bytes string[lo..hi], each byte by itself.
percent_encode_range(string, lo, hi) ==
    IF lo > hi THEN <<>>
    ELSE IF lo = hi THEN percent_encode_byte(string[lo])
    ELSE LET mid == (lo + hi) \div 2
         IN  percent_encode_range(string, lo, mid)
             \o percent_encode_range(string, mid + 1, hi)

percent_encode(string) == percent_encode_range(string, 1, Len(string))

RECURSIVE to_string(_)
\* u64::to_string: decimal digits, no leading zero.
to_string(n) ==
    IF n < 10 THEN <<48 + n>> ELSE to_string(n \div 10) \o <<48 + (n % 10)>>

(***************************************************************************)
(* src/src/oauth1a.rs                                                      *)
(***************************************************************************)
OAuth1_new(consumer_key, consumer_secret, callback, request_token_url, auth_url, access_token_url) ==
    [consumer_key |-> consumer_key,
     consumer_secret |-> consumer_secret,
     request_token_url |-> request_token_url,
     auth_url |-> auth_url,
     access_token_url |-> access_token_url,
     signature_method |-> S_HMAC_SHA1,
     version |-> S_version_1_0,
     callback |-> callback]

into_oauth_base_params(self) ==
    insert(insert(insert(EmptyMap,
        S_oauth_consumer_key, self.consumer_key),
        S_oauth_signature_method, self.signature_method),
        S_oauth_version, self.version)

\* Both parts percent-encoded before they are joined.
gen_signing_key_encoded(token, token_secret) ==
    LET key == percent_encode(token) \o <<38>>
    IN  IF is_some(token_secret)
        THEN key \o percent_encode(unwrap(token_secret))
        ELSE key

gen_signing_key(token, token_secret) ==
    LET key == token \o <<38>>
    IN  IF is_some(token_secret) THEN key \o unwrap(token_secret) ELSE key

\* request_params: auth_params extended with the queries when they are given.
merge_request_params(auth_params, queries) ==
    IF is_some(queries)
    THEN extend(extend(EmptyMap, auth_params), unwrap(queries))
    ELSE extend(EmptyMap, auth_params)

RECURSIVE push_params(_, _, _)
\* The loop over the sorted keys: key, '=', value, '&' are pushed for each.
push_params(keys, i, request_params) ==
    IF i > Len(keys) THEN <<>>
    ELSE keys[i] \o <<61>> \o request_params[keys[i]] \o <<38>>
         \o push_params(keys, i + 1, request_params)

\* The trailing '&' left in place.
gen_params_str_keep_amp(request_params) ==
    push_params(sort(DOMAIN request_params), 1, request_params)

\* params_str before it is percent-encoded: the trailing '&' is popped.
gen_params_str(request_params) ==
    LET params_str == push_params(sort(DOMAIN request_params), 1, request_params)
    IN  IF params_str # <<>> THEN pop(params_str) ELSE params_str

gen_signature_base_string(auth_params, protocol, url, queries) ==
    LET request_params == merge_request_params(auth_params, queries)
    IN  protocol \o <<38>> \o percent_encode(url) \o <<38>>
        \o percent_encode(gen_params_str(request_params))

RECURSIVE mac_sum(_, _, _)
\* A position-weighted checksum of the bytes s[lo..hi].
mac_sum(s, lo, hi) ==
    IF lo > hi THEN 0
    ELSE IF lo = hi THEN ((s[lo] + 1) * ((lo % 61) + 1)) % 4096
    ELSE LET mid == (lo + hi) \div 2
         IN  (mac_sum(s, lo, mid) + mac_sum(s, mid + 1, hi)) % 4096

\* One character of the standard base64 alphabet.
base64_char(n) ==
    IF n < 26 THEN 65 + n
    ELSE IF n < 52 THEN 71 + n
    ELSE IF n < 62 THEN n - 4
    ELSE IF n = 62 THEN 43 ELSE 47

\* HmacSha1 of the base string under the key, base64-encoded.  The digest of
\* the hmac and sha1 crates is abstracted to a 12-bit keyed checksum; the
\* text is over the base64 alphabet and ends in the padding '='.
hmac_sha1_base64(signing_key, signature_base_string) ==
    LET h == (mac_sum(signing_key, 1, Len(signing_key)) * 31
              + mac_sum(signature_base_string, 1, Len(signature_base_string))
              + 7) % 4096
    IN  <<base64_char(h \div 64), base64_char(h % 64), 61>>

gen_signature(signature_base_string, signing_key) ==
    Ok(percent_encode(hmac_sha1_base64(signing_key, signature_base_string)))

gen_user_auth_link(self, request_token) ==
    self.auth_url \o S_query_oauth_token \o request_token

RECURSIVE push_auth(_, _, _)
\* The loop over keys_sorted: key="value", and a space are pushed for each.
push_auth(keys_sorted, i, params) ==
    IF i > Len(keys_sorted) THEN <<>>
    ELSE keys_sorted[i] \o <<61, 34>> \o params[keys_sorted[i]] \o <<34, 44, 32>>
         \o push_auth(keys_sorted, i + 1, params)

\* One pop instead of two: the ',' of the last entry stays.
build_auth_one_pop(params) ==
    pop(S_OAuth_prefix \o push_auth(sort(DOMAIN params), 1, params))

\* The header text built from the signed parameters: the loop, then two pops.
build_auth(params) ==
    pop(pop(S_OAuth_prefix \o push_auth(sort(DOMAIN params), 1, params)))

\* The Ok value carries, beside the header text (auth), what it was made of:
\* the signed parameter map, the signing key and the signature base string.
gen_auth_common(self, url, protocol, params0, token_secret, queries) ==
    LET signing_key == gen_signing_key(self.consumer_secret, token_secret)
        signature_base_string ==
            gen_signature_base_string(params0, protocol, url, queries)
        signature == gen_signature(signature_base_string, signing_key)
    IN  IF ~signature.ok THEN signature
        ELSE LET params == insert(params0, S_oauth_signature, signature.val)
             IN  Ok([auth |-> build_auth(params),
                     params |-> params,
                     signing_key |-> signing_key,
                     base |-> signature_base_string,
                     url |-> url,
                     protocol |-> protocol])

\* nonce is what get_random_string(32) returned, clock what
\* get_unix_timestamp() returned (a Result).
gen_auth_for_request_token(self, nonce, clock) ==
    IF ~clock.ok THEN clock
    ELSE gen_auth_common(self, self.request_token_url, S_POST,
            insert(insert(insert(into_oauth_base_params(self),
                S_oauth_nonce, nonce),
                S_oauth_timestamp, to_string(clock.val)),
                S_oauth_callback, percent_encode(self.callback)),
            None, None)

\* The access-token header signed as if no token secret were known.
gen_auth_for_access_token_no_secret(self, request_token, request_token_secret, verifier_code, nonce, clock) ==
    IF ~clock.ok THEN clock
    ELSE gen_auth_common(self, self.access_token_url, S_POST,
            insert(insert(insert(insert(into_oauth_base_params(self),
                S_oauth_token, request_token),
                S_oauth_nonce, nonce),
                S_oauth_timestamp, to_string(clock.val)),
                S_oauth_verifier, verifier_code),
            None, None)

gen_auth_for_access_token(self, request_token, request_token_secret, verifier_code, nonce, clock) ==
    IF ~clock.ok THEN clock
    ELSE gen_auth_common(self, self.access_token_url, S_POST,
            insert(insert(insert(insert(into_oauth_base_params(self),
                S_oauth_token, request_token),
                S_oauth_nonce, nonce),
                S_oauth_timestamp, to_string(clock.val)),
                S_oauth_verifier, verifier_code),
            Some(request_token_secret), None)

\* The query parameters put into the header parameters as well.
gen_auth_for_rest_api_with_queries(self, url, protocol, access_token, access_token_secret, queries, nonce, clock) ==
    IF ~clock.ok THEN clock
    ELSE gen_auth_common(self, url, protocol,
            merge_request_params(
                insert(insert(insert(into_oauth_base_params(self),
                    S_oauth_token, access_token),
                    S_oauth_nonce, nonce),
                    S_oauth_timestamp, to_string(clock.val)),
                queries),
            Some(access_token_secret), queries)

gen_auth_for_rest_api(self, url, protocol, access_token, access_token_secret, queries, nonce, clock) ==
    IF ~clock.ok THEN clock
    ELSE gen_auth_common(self, url, protocol,
            insert(insert(insert(into_oauth_base_params(self),
                S_oauth_token, access_token),
                S_oauth_nonce, nonce),
                S_oauth_timestamp, to_string(clock.val)),
            Some(access_token_secret), queries)

(***************************************************************************)
(* src/src/zaim_api.rs                                                     *)
(***************************************************************************)
\* ZaimApiError::new(format!("<prefix>: {}", e)): the description is kept as
\* the sequence of its parts, outermost first.
wrap_err(prefix, e) == Err(<<prefix>> \o e.err)

AccessTokens_new_uninit == [access_token |-> <<>>, access_token_secret |-> <<>>]

UnauthorizedRequestToken_new_uninit ==
    [request_token |-> <<>>, request_token_secret |-> <<>>,
     callback_confirmed |-> FALSE]

\* str::split: the pieces of s between the occurrences of the byte sep; a
\* string with n separators has n + 1 pieces, empty ones included.
split(s, sep) ==
    LET at == {i \in 1..Len(s) : s[i] = sep}
        nth(k) == IF k = 0 THEN 0
                  ELSE IF k = Cardinality(at) + 1 THEN Len(s) + 1
                  ELSE CHOOSE i \in at : Cardinality({j \in at : j < i}) = k - 1
    IN  [k \in 1..(Cardinality(at) + 1) |-> SubSeq(s, nth(k - 1) + 1, nth(k) - 1)]

\* flags |= bit with the bit of oauth_token_secret set as well.
bit_or_wide(flags, bit) ==
    LET f == IF (flags \div bit) % 2 = 1 THEN flags ELSE flags + bit
    IN  IF (f \div 2) % 2 = 1 THEN f ELSE f + 2

\* flags |= bit, for bit a power of two.
bit_or(flags, bit) == IF (flags \div bit) % 2 = 1 THEN flags ELSE flags + bit

\* HeaderValue::from_str: refused when a byte is a control other than tab.
header_value_ok(auth) ==
    \A i \in 1..Len(auth) : (auth[i] >= 32 /\ auth[i] # 127) \/ auth[i] = 9

\* Url::parse: accepted when the text starts with a scheme and a colon.
url_parse_ok(url) ==
    \E i \in 2..Len(url) :
        /\ url[i] = 58
        /\ \A j \in 1..(i - 1) : url[j] \in (65..90) \cup (97..122)

\* The transport call sending whatever the protocol is.
request_any_protocol(url, protocol, auth, queries, net) ==
    IF ~header_value_ok(auth)
    THEN [sent |-> FALSE, res |-> Err(<<"reqwest Error", "InvalidHeaderValue">>)]
    ELSE IF ~url_parse_ok(url)
    THEN [sent |-> FALSE, res |-> Err(<<"reqwest Error", "ParseError">>)]
    ELSE IF ~net.send_ok
    THEN [sent |-> TRUE, res |-> Err(<<"reqwest Error", "send">>)]
    ELSE IF net.status = 200 /\ net.text_ok
    THEN [sent |-> TRUE, res |-> Ok(net.body)]
    ELSE [sent |-> TRUE, res |-> Err(<<"reqwest Error", "response">>)]

\* The transport call.  net is what the network does with a request that is
\* sent: [send_ok, status, text_ok, body].  The result is paired with
\* whether a request went out.  An error for a status carries the status
\* as text.
request(url, protocol, auth, queries, net) ==
    IF ~header_value_ok(auth)
    THEN [sent |-> FALSE, res |-> Err(<<"reqwest Error", "InvalidHeaderValue">>)]
    ELSE IF protocol # S_GET /\ protocol # S_POST
    THEN [sent |-> FALSE, res |-> Err(<<"Unexpected protocol">>)]
    ELSE IF ~url_parse_ok(url)
    THEN [sent |-> FALSE, res |-> Err(<<"reqwest Error", "ParseError">>)]
    ELSE IF ~net.send_ok
    THEN [sent |-> TRUE, res |-> Err(<<"reqwest Error", "send">>)]
    ELSE IF net.status = 200
    THEN IF net.text_ok
         THEN [sent |-> TRUE, res |-> Ok(net.body)]
         ELSE [sent |-> TRUE, res |-> Err(<<"reqwest Error", "text">>)]
    ELSE [sent |-> TRUE, res |-> Err(<<"reqwest Error", ToString(net.status)>>)]

\* Every value but "true" taken for false.
callback_confirmed_lenient(v) == IF v = S_true THEN Some(TRUE) ELSE Some(FALSE)

\* The value of oauth_callback_confirmed: Some(true) for "true", Some(false)
\* for "false", None (the error return) for anything else.
callback_confirmed_of(v) ==
    IF v = S_true THEN Some(TRUE)
    ELSE IF v = S_false THEN Some(FALSE)
    ELSE None

RECURSIVE request_token_loop(_, _, _, _)
\* The loop of request_request_token over the pieces of the body, then the
\* check of the flags.
request_token_loop(tokens, i, response, flags) ==
    IF i > Len(tokens)
    THEN IF flags # 7 THEN Err(<<"response is not completed">>) ELSE Ok(response)
    ELSE LET key_value == split(tokens[i], 61)
         IN  IF Len(key_value) # 2 THEN Err(<<"Unexpected response format">>)
             ELSE LET v == key_value[2]
                      k == key_value[1]
                  IN  IF k = S_oauth_token
                      THEN request_token_loop(tokens, i + 1,
                              [response EXCEPT !.request_token = v],
                              bit_or(flags, 1))
                      ELSE IF k = S_oauth_token_secret
                      THEN request_token_loop(tokens, i + 1,
                              [response EXCEPT !.request_token_secret = v],
                              bit_or(flags, 2))
                      ELSE IF k = S_oauth_callback_confirmed
                      THEN IF is_some(callback_confirmed_of(v))
                           THEN request_token_loop(tokens, i + 1,
                                   [response EXCEPT !.callback_confirmed =
                                       unwrap(callback_confirmed_of(v))],
                                   bit_or(flags, 4))
                           ELSE Err(<<"Error: Unexpected value of 'oauth_callback_confirmed' key">>)
                      ELSE request_token_loop(tokens, i + 1, response, flags)

\* request_request_token, given what request(url, "POST", auth, None) returned.
request_request_token(http_res) ==
    IF ~http_res.ok THEN wrap_err("Failed http request", http_res)
    ELSE request_token_loop(split(http_res.val, 38), 1,
                            UnauthorizedRequestToken_new_uninit, 0)

RECURSIVE access_token_loop(_, _, _, _)
\* The loop of request_access_token over the pieces of the body, then the
\* check of the flags.
access_token_loop(tokens, i, response, flags) ==
    IF i > Len(tokens)
    THEN IF flags # 3 THEN Err(<<"response is not completed">>) ELSE Ok(response)
    ELSE LET key_value == split(tokens[i], 61)
         IN  IF Len(key_value) # 2
             THEN Err(<<"Error: Unexpected response format">>)
             ELSE LET v == key_value[2]
                      k == key_value[1]
                  IN  IF k = S_oauth_token
                      THEN access_token_loop(tokens, i + 1,
                              [response EXCEPT !.access_token = v],
                              bit_or(flags, 1))
                      ELSE IF k = S_oauth_token_secret
                      THEN access_token_loop(tokens, i + 1,
                              [response EXCEPT !.access_token_secret = v],
                              bit_or(flags, 2))
                      ELSE access_token_loop(tokens, i + 1, response, flags)

\* request_access_token, given what request(url, "POST", auth, None) returned.
request_access_token(http_res) ==
    IF ~http_res.ok THEN wrap_err("Failed http request", http_res)
    ELSE access_token_loop(split(http_res.val, 38), 1,
                           AccessTokens_new_uninit, 0)

(***************************************************************************)
(* State.                                                                  *)
(*   op, arg, ret   the last call of a signing or parsing function made by *)
(*                  a caller of the library, its arguments and its result  *)
(*   caller         who runs the flow: main, or a user of ZaimApi          *)
(*   cli            the parsed command line (Cli)                          *)
(*   pc             the step the run is at                                 *)
(*   mem            the locals of main or the fields of ZaimApi            *)
(*   log            the HTTP requests sent and the verifier prompts shown, *)
(*                  in order                                               *)
(*   files          what the run wrote: access_tokens.json, the save path  *)
(*   stderr         the diagnostics printed                                *)
(*   exit_code      the ExitCode main returned                             *)
(*   auth_result    what authenticate returned                             *)
(*   held           the AccessTokens the caller possessed beforehand (read *)
(*                  from the access-token file, or given to ZaimApi::new)  *)
(*   failed         the first step that failed and the length of the log   *)
(*                  at that moment                                         *)
(***************************************************************************)
VARIABLES op, arg, ret, caller, cli, pc, mem, log, files, stderr, exit_code,
          auth_result, held, failed

lib_vars == <<op, arg, ret>>

flow_vars ==
    <<caller, cli, pc, mem, log, files, stderr, exit_code, auth_result, held,
      failed>>

vars == <<lib_vars, flow_vars>>

(***************************************************************************)
(* Bounds and the inputs drawn within them.                                *)
(***************************************************************************)
\* Longest input of percent_encode over EncChars.
MaxLen == 2

\* Most entries of a parameter map or a query map.
MaxParams == 2

\* Most '&'-separated pieces of a response body.
MaxSegs == 3

RECURSIVE StringsUpTo(_, _)
\* The concatenations of at most n members of chars.
StringsUpTo(chars, n) ==
    IF n = 0 THEN {<<>>}
    ELSE LET shorter == StringsUpTo(chars, n - 1)
         IN  shorter \cup {s \o c : s \in shorter, c \in chars}

MapsOver(K, V, n) ==
    UNION {[S -> V] : S \in {T \in SUBSET K : Cardinality(T) <= n}}

Options(S) == {None} \cup {Some(x) : x \in S}

\* a Z 0 - ~ space % & " newline e-acute
EncChars ==
    {<<97>>, <<90>>, <<48>>, <<45>>, <<126>>, <<32>>, <<37>>, <<38>>, <<34>>,
     <<10>>, <<195, 169>>}

\* Every ASCII character by itself, two non-ASCII characters, the short
\* strings over EncChars and the callback of the tests.
EncodeInputs ==
    {<<b>> : b \in 0..127} \cup {<<195, 169>>, <<227, 129, 130>>, T_CALLBACK}
    \cup StringsUpTo(EncChars, MaxLen)

\* "s&1", "k y", "", e-acute "%"
SecretInputs ==
    {T_CONSUMER_SECRET, <<115, 38, 49>>, <<107, 32, 121>>, <<>>,
     <<195, 169, 37>>}

\* "a", "ab", "B", "oauth_nonce"
ParamKeys == {<<97>>, <<97, 98>>, <<66>>, S_oauth_nonce}

\* "1", "&="
ParamValues == {<<49>>, <<38, 61>>}

ParamMaps == MapsOver(ParamKeys, ParamValues, MaxParams)

\* "h:/x y"
UrlInputs == {REQUEST_TOKEN_URL, <<104, 58, 47, 120, 32, 121>>}

ProtocolInputs == {S_POST, S_GET}

\* "k y"
ConsumerKeyInputs == {T_CONSUMER_KEY, <<107, 32, 121>>}

\* "s&1"
ConsumerSecretInputs == {T_CONSUMER_SECRET, <<115, 38, 49>>}

OAuth1Inputs(callbacks) ==
    {OAuth1_new(ck, cs, cb, REQUEST_TOKEN_URL, AUTH_URL, ACCESS_TOKEN_URL) :
        ck \in ConsumerKeyInputs, cs \in ConsumerSecretInputs, cb \in callbacks}

\* "58" and the nonce of the tests.
NonceInputs == {T_NONCE, <<53, 56>>}

ClockInputs == {Err(<<"SystemTimeError">>), Ok(1718193989), Ok(7)}

\* "A", "B"
TokenInputs == {<<65>>, <<66>>}

\* "S", "s&1"
TokenSecretInputs == {<<83>>, <<115, 38, 49>>}

\* "1234", ""
VerifierInputs == {<<49, 50, 51, 52>>, <<>>}

\* "page", "oauth_token", "a b"
QueryKeys == {<<112, 97, 103, 101>>, S_oauth_token, <<97, 32, 98>>}

QueryMaps == MapsOver(QueryKeys, ParamValues, MaxParams)

\* "h:/x y"
RestTargetInputs ==
    {[url |-> VERIFY_USER_URL, protocol |-> S_GET],
     [url |-> <<104, 58, 47, 120, 32, 121>>, protocol |-> S_POST]}

\* "A" with "S", "B" with "s&1"
RestTokenInputs ==
    {[access_token |-> <<65>>, access_token_secret |-> <<83>>],
     [access_token |-> <<66>>, access_token_secret |-> <<115, 38, 49>>]}

pair(k, v) == k \o <<61>> \o v

\* "maybe", ""
ConfirmedInputs == {S_true, S_false, <<109, 97, 121, 98, 101>>, <<>>}

\* The pieces a response body is made of: the three keys with their values,
\* "x=1", "junk", "a=b=c" and the empty piece.
BodySegs ==
    {pair(S_oauth_token, t) : t \in TokenInputs}
    \cup {pair(S_oauth_token_secret, <<83>>)}
    \cup {pair(S_oauth_callback_confirmed, v) : v \in ConfirmedInputs}
    \cup {<<120, 61, 49>>, <<106, 117, 110, 107>>, <<97, 61, 98, 61, 99>>, <<>>}

RECURSIVE join_from(_, _, _)
\* parts[i], parts[i+1], ... with sep between two neighbours.
join_from(parts, i, sep) ==
    IF i > Len(parts) THEN <<>>
    ELSE IF i = Len(parts) THEN parts[i]
    ELSE parts[i] \o sep \o join_from(parts, i + 1, sep)

BodyInputs ==
    UNION {{join_from(segs, 1, <<38>>) : segs \in [1..n -> BodySegs]} :
              n \in 1..MaxSegs}

HttpResInputs ==
    {Err(<<"reqwest Error", "401">>)} \cup {Ok(b) : b \in BodyInputs}

\* What the network does with a request: the send fails, or a response
\* with a status comes and its text is read or not.
NetInputs(bodies) ==
    {[send_ok |-> FALSE, status |-> 0, text_ok |-> FALSE, body |-> <<>>],
     [send_ok |-> TRUE, status |-> 200, text_ok |-> FALSE, body |-> <<>>]}
    \cup [send_ok : {TRUE}, status : {200, 201, 401}, text_ok : {TRUE},
          body : bodies]

\* Bodies of the REST endpoint: "{}" and the empty body.
RestBodies == {<<123, 125>>, <<>>}

\* Headers handed to request: "OAuth a", and one with a line feed.
AuthInputs == {S_OAuth_prefix \o <<97>>, S_OAuth_prefix \o <<10>>}

\* "not a url"
NotAUrl == <<110, 111, 116, 32, 97, 32, 117, 114, 108>>

(***************************************************************************)
(* The calls.                                                              *)
(***************************************************************************)
Call_percent_encode ==
    /\ op = "none"
    /\ \E string \in EncodeInputs :
           /\ op' = "percent_encode"
           /\ arg' = [string |-> string]
           /\ ret' = percent_encode(string)
    /\ UNCHANGED flow_vars

Call_gen_signing_key ==
    /\ op = "none"
    /\ \E token \in SecretInputs, token_secret \in Options(SecretInputs) :
           /\ op' = "gen_signing_key"
           /\ arg' = [token |-> token, token_secret |-> token_secret]
           /\ ret' = gen_signing_key(token, token_secret)
    /\ UNCHANGED flow_vars

Call_gen_signature_base_string ==
    /\ op = "none"
    /\ \E auth_params \in ParamMaps, queries \in Options(ParamMaps),
          protocol \in ProtocolInputs, url \in UrlInputs :
           /\ op' = "gen_signature_base_string"
           /\ arg' = [auth_params |-> auth_params, protocol |-> protocol,
                      url |-> url, queries |-> queries]
           /\ ret' = gen_signature_base_string(auth_params, protocol, url,
                                               queries)
    /\ UNCHANGED flow_vars

Call_gen_auth_for_request_token ==
    /\ op = "none"
    /\ \E self \in OAuth1Inputs({T_CALLBACK, S_oob}),
          nonce \in NonceInputs, clock \in ClockInputs :
           /\ op' = "gen_auth_for_request_token"
           /\ arg' = [self |-> self, nonce |-> nonce, clock |-> clock]
           /\ ret' = gen_auth_for_request_token(self, nonce, clock)
    /\ UNCHANGED flow_vars

Call_gen_auth_for_access_token ==
    /\ op = "none"
    /\ \E self \in OAuth1Inputs({S_oob}),
          request_token \in TokenInputs,
          request_token_secret \in TokenSecretInputs,
          verifier_code \in VerifierInputs,
          nonce \in NonceInputs, clock \in ClockInputs :
           /\ op' = "gen_auth_for_access_token"
           /\ arg' = [self |-> self, request_token |-> request_token,
                      request_token_secret |-> request_token_secret,
                      verifier_code |-> verifier_code,
                      nonce |-> nonce, clock |-> clock]
           /\ ret' = gen_auth_for_access_token(self, request_token,
                         request_token_secret, verifier_code, nonce, clock)
    /\ UNCHANGED flow_vars

Call_gen_auth_for_rest_api ==
    /\ op = "none"
    /\ \E self \in OAuth1Inputs({S_oob}),
          target \in RestTargetInputs,
          tokens \in RestTokenInputs,
          queries \in Options(QueryMaps),
          nonce \in {T_NONCE}, clock \in ClockInputs :
           /\ op' = "gen_auth_for_rest_api"
           /\ arg' = [self |-> self, url |-> target.url,
                      protocol |-> target.protocol,
                      access_token |-> tokens.access_token,
                      access_token_secret |-> tokens.access_token_secret,
                      queries |-> queries, nonce |-> nonce, clock |-> clock]
           /\ ret' = gen_auth_for_rest_api(self, target.url, target.protocol,
                         tokens.access_token, tokens.access_token_secret,
                         queries, nonce, clock)
    /\ UNCHANGED flow_vars

Call_request_request_token ==
    /\ op = "none"
    /\ \E http_res \in HttpResInputs :
           /\ op' = "request_request_token"
           /\ arg' = [http_res |-> http_res]
           /\ ret' = request_request_token(http_res)
    /\ UNCHANGED flow_vars

Call_request_access_token ==
    /\ op = "none"
    /\ \E http_res \in HttpResInputs :
           /\ op' = "request_access_token"
           /\ arg' = [http_res |-> http_res]
           /\ ret' = request_access_token(http_res)

    /\ UNCHANGED flow_vars

\* zaim_api.rs 182-228: the transport call by itself.
Call_request ==
    /\ op = "none"
    /\ \E url \in {VERIFY_USER_URL, NotAUrl}, protocol \in {S_GET, S_POST, S_PUT},
          auth \in AuthInputs, queries \in {None},
          net \in NetInputs(RestBodies) :
           /\ op' = "request"
           /\ arg' = [url |-> url, protocol |-> protocol, auth |-> auth,
                      queries |-> queries, net |-> net]
           /\ ret' = request(url, protocol, auth, queries, net)
    /\ UNCHANGED flow_vars

\* The caller takes the result; the next call may be made.
Return ==
    /\ op # "none"
    /\ op' = "none"
    /\ arg' = <<>>
    /\ ret' = <<>>
    /\ UNCHANGED flow_vars

LibNext ==
    \/ Return
    \/ Call_percent_encode
    \/ Call_gen_signing_key
    \/ Call_gen_signature_base_string
    \/ Call_gen_auth_for_request_token
    \/ Call_gen_auth_for_access_token
    \/ Call_gen_auth_for_rest_api
    \/ Call_request_request_token
    \/ Call_request_access_token
    \/ Call_request

(***************************************************************************)
(* The run: src/src/main.rs, authenticate and request_rest_api of          *)
(* src/src/zaim_api.rs, and the methods of ZaimApi.                        *)
(***************************************************************************)
\* What a file gives when it is looked for, read and parsed into one of
\* values: absent, unreadable, unparsable, or a value.
FileInputs(values) ==
    {[exists |-> FALSE, read_ok |-> FALSE, parsed |-> None],
     [exists |-> TRUE, read_ok |-> FALSE, parsed |-> None],
     [exists |-> TRUE, read_ok |-> TRUE, parsed |-> None]}
    \cup {[exists |-> TRUE, read_ok |-> TRUE, parsed |-> Some(v)] : v \in values}

\* The consumer of the tests, and one whose key has a line feed: "k\ny", "s&1".
ConsumerInfoInputs ==
    {[consumer_key |-> T_CONSUMER_KEY, consumer_secret |-> T_CONSUMER_SECRET],
     [consumer_key |-> <<107, 10, 121>>, consumer_secret |-> <<115, 38, 49>>]}

\* "A" with "S", "B" with "T"
AccessTokensInputs ==
    {[access_token |-> <<65>>, access_token_secret |-> <<83>>],
     [access_token |-> <<66>>, access_token_secret |-> <<84>>]}

\* --query: absent, text that is no JSON map of strings, {"page": "1"} and
\* {"oauth_token": "&=", "page": "1"}.
CliQueryInputs ==
    {None, Some(None),
     Some(Some((<<112, 97, 103, 101>> :> <<49>>))),
     Some(Some((S_oauth_token :> <<38, 61>>) @@ (<<112, 97, 103, 101>> :> <<49>>)))}

\* "not a url"
CliUriInputs == {VERIFY_USER_URL, <<110, 111, 116, 32, 97, 32, 117, 114, 108>>}

CliMethodInputs == {S_GET, S_POST, S_PUT}

\* The command lines: every query with the verify-user URI and GET or POST,
\* and the other URI and the other method without a query.
CliInputs ==
    {c \in [access_token : BOOLEAN, query : CliQueryInputs,
            uri : CliUriInputs, method : CliMethodInputs] :
        \/ c.uri = VERIFY_USER_URL /\ c.method # S_PUT
        \/ c.query = None /\ (c.uri = VERIFY_USER_URL \/ c.method = S_GET)}

\* The OAuth1 a user of ZaimApi may pass: that of main, and one with
\* endpoints of its own ("h:/r", "h:/u", "h:/a").
ApiOAuth1Inputs ==
    {OAuth1_new(T_CONSUMER_KEY, T_CONSUMER_SECRET, S_oob,
                REQUEST_TOKEN_URL, AUTH_URL, ACCESS_TOKEN_URL),
     OAuth1_new(T_CONSUMER_KEY, T_CONSUMER_SECRET, T_CALLBACK,
                <<104, 58, 47, 114>>, <<104, 58, 47, 117>>, <<104, 58, 47, 97>>)}

RunNonceInputs == {T_NONCE}

RunClockInputs == {Err(<<"SystemTimeError">>), Ok(1718193989)}

\* Bodies of the request-token endpoint: complete ones in two orders,
\* one without the secret, one with an unexpected flag, one with no pair.
RequestTokenBodies ==
    {join_from(<<pair(S_oauth_token, <<65>>),
                 pair(S_oauth_token_secret, <<83>>),
                 pair(S_oauth_callback_confirmed, S_true)>>, 1, <<38>>),
     join_from(<<pair(S_oauth_callback_confirmed, S_false),
                 pair(S_oauth_token_secret, <<84>>),
                 pair(<<120>>, <<49>>),
                 pair(S_oauth_token, <<66>>)>>, 1, <<38>>),
     join_from(<<pair(S_oauth_token, <<65>>),
                 pair(S_oauth_callback_confirmed, S_true)>>, 1, <<38>>),
     join_from(<<pair(S_oauth_token, <<65>>),
                 pair(S_oauth_token_secret, <<83>>),
                 pair(S_oauth_callback_confirmed, <<109, 97, 121, 98, 101>>)>>,
               1, <<38>>),
     <<106, 117, 110, 107>>}

\* Bodies of the access-token endpoint.
AccessTokenBodies ==
    {join_from(<<pair(S_oauth_token, <<65>>),
                 pair(S_oauth_token_secret, <<83>>)>>, 1, <<38>>),
     join_from(<<pair(S_oauth_token_secret, <<84>>),
                 pair(<<120>>, <<49>>),
                 pair(S_oauth_token, <<66>>)>>, 1, <<38>>),
     pair(S_oauth_token, <<65>>),
     <<>>}

\* What read_line gives: an error, or the line typed (" 1234\n", "").
ReadLineInputs ==
    {Err(<<"stdin">>), Ok(<<32, 49, 50, 51, 52, 10>>), Ok(<<>>)}

\* str::trim: white space removed at both ends.
trim(s) ==
    LET white == {9, 10, 11, 12, 13, 32}
        kept == {i \in 1..Len(s) : s[i] \notin white}
    IN  IF kept = {} THEN <<>>
        ELSE SubSeq(s, CHOOSE i \in kept : \A j \in kept : i <= j,
                       CHOOSE i \in kept : \A j \in kept : j <= i)

MemInit ==
    [consumer_info |-> None, api_query_params |-> None,
     skip_user_confirm |-> FALSE, oauth1 |-> None, request_tokens |-> None,
     verifier_code |-> None, access_tokens |-> None, fetched_data |-> None]

NoCli ==
    [access_token |-> FALSE, query |-> None, uri |-> <<>>, method |-> <<>>]

NotFailed == [step |-> "none", log_len |-> 0]

FilesInit == [access_tokens_json |-> None, save |-> None]

\* A request that went out, with what came back for it.
Sent(kind, url, protocol, auth, queries, res) ==
    [kind |-> kind, url |-> url, protocol |-> protocol, auth |-> auth,
     queries |-> queries, res |-> res]

\* The link shown before the verifier code is read.
Prompt(link) ==
    [kind |-> "verifier", url |-> link, protocol |-> <<>>, auth |-> <<>>,
     queries |-> None, res |-> Ok(<<>>)]

\* main prints a diagnostic and returns ExitCode::FAILURE.
MainFails(step, diag, new_log) ==
    /\ pc' = "exit"
    /\ exit_code' = "FAILURE"
    /\ stderr' = Append(stderr, diag)
    /\ failed' = [step |-> step, log_len |-> Len(new_log)]
    /\ log' = new_log

\* A panic unwinds the run: the process ends with the panic's exit code
\* after the panic message.
Panics(step, new_log) ==
    /\ pc' = "exit"
    /\ exit_code' = "PANIC"
    /\ stderr' = Append(stderr, "panicked")
    /\ failed' = IF failed.step # "none" THEN failed
                 ELSE [step |-> step, log_len |-> Len(new_log)]
    /\ log' = new_log

\* A step of authenticate failed, and authenticate is entered again.
AuthenticateRetries(step, diag, new_log) ==
    /\ auth_result' = "Err"
    /\ failed' = [step |-> step, log_len |-> Len(new_log)]
    /\ log' = new_log
    /\ pc' = "authenticate_request_token"
    /\ UNCHANGED <<exit_code, stderr>>

\* authenticate returns Err: main prints it and returns FAILURE; the
\* authenticate method of ZaimApi hands it to its caller.
AuthenticateErr(step, diag, new_log) ==
    /\ auth_result' = "Err"
    /\ failed' = [step |-> step, log_len |-> Len(new_log)]
    /\ log' = new_log
    /\ IF caller = "main"
       THEN /\ pc' = "exit"
            /\ exit_code' = "FAILURE"
            /\ stderr' = Append(stderr, diag)
       ELSE /\ pc' = "ZaimApi_rest_api_verify_user"
            /\ UNCHANGED <<exit_code, stderr>>

\* main.rs 77-98: the consumer-info file is looked for, read and parsed.
ReadConsumerInfo ==
    /\ pc = "read_consumer_info"
    /\ \E f \in FileInputs(ConsumerInfoInputs) :
          IF ~f.exists
          THEN MainFails("consumer_info", "not found", log) /\ mem' = mem
          ELSE IF ~f.read_ok
          THEN MainFails("consumer_info", "failed to open and read", log)
               /\ mem' = mem
          ELSE IF ~is_some(f.parsed)
          THEN MainFails("consumer_info", "failed to parse consumer_info", log)
               /\ mem' = mem
          ELSE /\ mem' = [mem EXCEPT !.consumer_info = f.parsed]
               /\ pc' = "parse_query"
               /\ UNCHANGED <<log, stderr, exit_code, failed>>
    /\ UNCHANGED <<lib_vars, caller, cli, files, auth_result, held>>

\* main.rs 100-109: the --query argument, when given, is parsed.
ParseQuery ==
    /\ pc = "parse_query"
    /\ IF is_some(cli.query)
       THEN IF is_some(unwrap(cli.query))
            THEN /\ mem' = [mem EXCEPT !.api_query_params = unwrap(cli.query)]
                 /\ pc' = "check_access_token_path"
                 /\ UNCHANGED <<log, stderr, exit_code, failed>>
            ELSE MainFails("query", "failed to parse query", log) /\ mem' = mem
       ELSE /\ pc' = "check_access_token_path"
            /\ UNCHANGED <<mem, log, stderr, exit_code, failed>>
    /\ UNCHANGED <<lib_vars, caller, cli, files, auth_result, held>>

\* main.rs 111-128: the access-token path, when given, must exist; OAuth1::new.
CheckAccessTokenPath ==
    /\ pc = "check_access_token_path"
    /\ LET consumer_info == unwrap(mem.consumer_info)
           oauth1 == OAuth1_new(consumer_info.consumer_key,
                                consumer_info.consumer_secret, S_oob,
                                REQUEST_TOKEN_URL, AUTH_URL, ACCESS_TOKEN_URL)
       IN  IF cli.access_token
           THEN \E exists \in BOOLEAN :
                   IF exists
                   THEN /\ mem' = [mem EXCEPT !.skip_user_confirm = TRUE,
                                              !.oauth1 = Some(oauth1)]
                        /\ pc' = "load_access_tokens"
                        /\ UNCHANGED <<log, stderr, exit_code, failed>>
                   ELSE MainFails("access_token", "not found", log)
                        /\ mem' = mem
           ELSE /\ mem' = [mem EXCEPT !.oauth1 = Some(oauth1)]
                /\ pc' = "authenticate_request_token"
                /\ UNCHANGED <<log, stderr, exit_code, failed>>
    /\ UNCHANGED <<lib_vars, caller, cli, files, auth_result, held>>

\* zaim_api.rs 322-340: the request-token header, request and response.
Authenticate_RequestToken ==
    /\ pc = "authenticate_request_token"
    /\ \E nonce \in RunNonceInputs, clock \in RunClockInputs,
          net \in NetInputs(RequestTokenBodies) :
          LET auth_for_request_token ==
                  gen_auth_for_request_token(unwrap(mem.oauth1), nonce, clock)
          IN  IF ~auth_for_request_token.ok
              THEN /\ AuthenticateErr("gen_auth_for_request_token",
                          "Failed to gen auth for request token", log)
                   /\ mem' = mem
              ELSE LET r == request(REQUEST_TOKEN_URL, S_POST,
                                    auth_for_request_token.val.auth, None, net)
                       request_tokens == request_request_token(r.res)
                       new_log ==
                           IF r.sent
                           THEN Append(log, Sent("request_token",
                                    REQUEST_TOKEN_URL, S_POST,
                                    auth_for_request_token.val, None, r.res))
                           ELSE log
                   IN  IF ~request_tokens.ok
                       THEN /\ AuthenticateErr("request_request_token",
                                   "Failed to get request tokens", new_log)
                            /\ mem' = mem
                       ELSE /\ mem' = [mem EXCEPT !.request_tokens =
                                                     Some(request_tokens.val)]
                            /\ log' = new_log
                            /\ pc' = "authenticate_read_verifier"
                            /\ UNCHANGED <<stderr, exit_code, failed,
                                           auth_result>>
    /\ UNCHANGED <<lib_vars, caller, cli, files, held>>

\* zaim_api.rs 342-352: the link is shown and the verifier code is read.
\* println! panics when the write to stdout fails.
Authenticate_ReadVerifier ==
    /\ pc = "authenticate_read_verifier"
    /\ \E user_input \in ReadLineInputs, stdout_ok \in BOOLEAN :
          LET new_log ==
                  Append(log, Prompt(gen_user_auth_link(unwrap(mem.oauth1),
                      unwrap(mem.request_tokens).request_token)))
          IN  IF ~stdout_ok
              THEN /\ Panics("println", log)
                   /\ UNCHANGED <<mem, auth_result>>
              ELSE IF ~user_input.ok
              THEN /\ AuthenticateErr("read_line",
                          "Failed to read user input", new_log)
                   /\ mem' = mem
              ELSE /\ mem' = [mem EXCEPT !.verifier_code =
                                            Some(trim(user_input.val))]
                   /\ log' = new_log
                   /\ pc' = "authenticate_access_token"
                   /\ UNCHANGED <<stderr, exit_code, failed, auth_result>>
    /\ UNCHANGED <<lib_vars, caller, cli, files, held>>

\* zaim_api.rs 354-378 and its callers (main.rs 131-137, zaim_api.rs 60-65):
\* the access-token header, request and response; the tokens are returned.
Authenticate_AccessToken ==
    /\ pc = "authenticate_access_token"
    /\ \E nonce \in RunNonceInputs, clock \in RunClockInputs,
          net \in NetInputs(AccessTokenBodies) :
          LET request_tokens == unwrap(mem.request_tokens)
              auth_for_access_token ==
                  gen_auth_for_access_token(unwrap(mem.oauth1),
                      request_tokens.request_token,
                      request_tokens.request_token_secret,
                      unwrap(mem.verifier_code), nonce, clock)
          IN  IF ~auth_for_access_token.ok
              THEN /\ AuthenticateErr("gen_auth_for_access_token",
                          "Failed to gen auth for access token", log)
                   /\ mem' = mem
              ELSE LET r == request(ACCESS_TOKEN_URL, S_POST,
                                    auth_for_access_token.val.auth, None, net)
                       access_tokens == request_access_token(r.res)
                       new_log ==
                           IF r.sent
                           THEN Append(log, Sent("access_token",
                                    ACCESS_TOKEN_URL, S_POST,
                                    auth_for_access_token.val, None, r.res))
                           ELSE log
                   IN  IF ~access_tokens.ok
                       THEN /\ AuthenticateErr("request_access_token",
                                   "Failed to get access tokens", new_log)
                            /\ mem' = mem
                       ELSE /\ mem' = [mem EXCEPT !.access_tokens =
                                                     Some(access_tokens.val)]
                            /\ log' = new_log
                            /\ auth_result' = "Ok"
                            /\ pc' = IF caller = "main"
                                     THEN "save_access_tokens"
                                     ELSE "ZaimApi_rest_api_verify_user"
                            /\ UNCHANGED <<stderr, exit_code, failed>>
    /\ UNCHANGED <<lib_vars, caller, cli, files, held>>

\* main.rs 139-143: the tokens are written to access_tokens.json.
SaveAccessTokens ==
    /\ pc = "save_access_tokens"
    /\ \E written \in BOOLEAN :
          IF written
          THEN /\ files' = [files EXCEPT !.access_tokens_json =
                                             mem.access_tokens]
               /\ pc' = "request_rest_api"
               /\ UNCHANGED <<log, stderr, exit_code, failed>>
          ELSE /\ MainFails("save_access_tokens",
                      "Failed to save access tokens", log)
               /\ files' = files
    /\ UNCHANGED <<lib_vars, caller, cli, mem, auth_result, held>>

\* main.rs 145-162: the access-token file is read and parsed.
LoadAccessTokens ==
    /\ pc = "load_access_tokens"
    /\ \E f \in {x \in FileInputs(AccessTokensInputs) : x.exists} :
          IF ~f.read_ok
          THEN /\ MainFails("access_token", "failed to open and read", log)
               /\ UNCHANGED <<mem, held>>
          ELSE IF ~is_some(f.parsed)
          THEN /\ MainFails("access_token", "failed to parse access_token",
                            log)
               /\ UNCHANGED <<mem, held>>
          ELSE /\ mem' = [mem EXCEPT !.access_tokens = f.parsed]
               /\ held' = f.parsed
               /\ pc' = "request_rest_api"
               /\ UNCHANGED <<log, stderr, exit_code, failed>>
    /\ UNCHANGED <<lib_vars, caller, cli, files, auth_result>>

\* zaim_api.rs 381-403: the REST header and the request.  The result is
\* paired with the log after it.
request_rest_api(oauth1, url, protocol, access_token, access_token_secret, queries, nonce, clock, net) ==
    LET auth == gen_auth_for_rest_api(oauth1, url, protocol, access_token,
                                      access_token_secret, queries, nonce,
                                      clock)
    IN  IF ~auth.ok
        THEN [res |-> wrap_err("Failed to generate auth", auth), log |-> log]
        ELSE LET r == request(url, protocol, auth.val.auth, queries, net)
             IN  [res |-> r.res,
                  log |-> IF r.sent
                          THEN Append(log, Sent("rest", url, protocol,
                                                auth.val, queries, r.res))
                          ELSE log]

\* main.rs 167-187, first half: the REST request.
RequestRestApi ==
    /\ pc = "request_rest_api"
    /\ \E nonce \in RunNonceInputs, clock \in RunClockInputs,
          net \in NetInputs(RestBodies) :
          LET access_tokens == unwrap(mem.access_tokens)
              fetched_data ==
                  request_rest_api(unwrap(mem.oauth1), cli.uri, cli.method,
                      access_tokens.access_token,
                      access_tokens.access_token_secret,
                      mem.api_query_params, nonce, clock, net)
          IN  IF fetched_data.res.ok
              THEN /\ mem' = [mem EXCEPT !.fetched_data = Some(fetched_data.res)]
                   /\ log' = fetched_data.log
                   /\ pc' = "save_api_response"
                   /\ UNCHANGED <<stderr, exit_code, failed>>
              ELSE /\ MainFails("request_rest_api",
                          "failed to request to rest api", fetched_data.log)
                   /\ mem' = [mem EXCEPT !.fetched_data = Some(fetched_data.res)]
    /\ UNCHANGED <<lib_vars, caller, cli, files, auth_result, held>>

\* main.rs 176-189: the response is written to the save path.
SaveApiResponse ==
    /\ pc = "save_api_response"
    /\ \E written \in BOOLEAN :
          IF written
          THEN /\ files' = [files EXCEPT !.save =
                               Some(unwrap(mem.fetched_data).val)]
               /\ pc' = "exit"
               /\ exit_code' = "SUCCESS"
               /\ UNCHANGED <<log, stderr, failed>>
          ELSE /\ MainFails("save_api_response",
                      "failed to save api response", log)
               /\ files' = files
    /\ UNCHANGED <<lib_vars, caller, cli, mem, auth_result, held>>

\* ZaimApi::authenticate running authenticate whether or not the tokens
\* are held.
ZaimApi_authenticate_always ==
    /\ pc = "ZaimApi_authenticate"
    /\ pc' = "authenticate_request_token"
    /\ UNCHANGED <<lib_vars, caller, cli, mem, log, files, stderr, exit_code,
                   auth_result, held, failed>>

\* zaim_api.rs 55-66: ZaimApi::authenticate returns at once when the tokens
\* are held, and runs authenticate otherwise.
ZaimApi_authenticate ==
    /\ pc = "ZaimApi_authenticate"
    /\ IF is_some(mem.access_tokens)
       THEN /\ auth_result' = "Ok"
            /\ pc' = "ZaimApi_rest_api_verify_user"
       ELSE /\ pc' = "authenticate_request_token"
            /\ UNCHANGED auth_result
    /\ UNCHANGED <<lib_vars, caller, cli, mem, log, files, stderr, exit_code,
                   held, failed>>

\* zaim_api.rs 89-102 and 406-429: ZaimApi::rest_api_verify_user.  The
\* response is printed with println!, which panics when the write fails.
ZaimApi_rest_api_verify_user ==
    /\ pc = "ZaimApi_rest_api_verify_user"
    /\ IF is_some(mem.access_tokens)
       THEN \E nonce \in RunNonceInputs, clock \in RunClockInputs,
               net \in NetInputs(RestBodies), stdout_ok \in BOOLEAN :
               LET access_tokens == unwrap(mem.access_tokens)
                   http_res ==
                       request_rest_api(unwrap(mem.oauth1), VERIFY_USER_URL,
                           S_GET, access_tokens.access_token,
                           access_tokens.access_token_secret, None, nonce,
                           clock, net)
               IN  /\ mem' = [mem EXCEPT !.fetched_data =
                                 Some(IF http_res.res.ok THEN http_res.res
                                      ELSE wrap_err("Failed http request",
                                                    http_res.res))]
                   /\ IF http_res.res.ok /\ ~stdout_ok
                      THEN Panics("println", http_res.log)
                      ELSE /\ log' = http_res.log
                           /\ failed' =
                                  IF http_res.res.ok \/ failed.step # "none"
                                  THEN failed
                                  ELSE [step |-> "request_rest_api",
                                        log_len |-> Len(http_res.log)]
                           /\ pc' = "ZaimApi_done"
                           /\ UNCHANGED <<stderr, exit_code>>
       ELSE /\ mem' = [mem EXCEPT !.fetched_data =
                          Some(Err(<<"User authentication not done">>))]
            /\ pc' = "ZaimApi_done"
            /\ UNCHANGED <<log, failed, stderr, exit_code>>
    /\ UNCHANGED <<lib_vars, caller, cli, files, auth_result, held>>

Next ==
    \/ ReadConsumerInfo
    \/ ParseQuery
    \/ CheckAccessTokenPath
    \/ Authenticate_RequestToken
    \/ Authenticate_ReadVerifier
    \/ Authenticate_AccessToken
    \/ SaveAccessTokens
    \/ LoadAccessTokens
    \/ RequestRestApi
    \/ SaveApiResponse
    \/ ZaimApi_authenticate
    \/ ZaimApi_rest_api_verify_user

LibIdle == op = "none" /\ arg = <<>> /\ ret = <<>>

RunInit ==
    /\ pc \in {"read_consumer_info", "ZaimApi_authenticate"}
    /\ IF pc = "read_consumer_info"
       THEN /\ caller = "main"
            /\ cli \in CliInputs
            /\ mem = MemInit
       ELSE /\ caller = "ZaimApi"
            /\ cli = NoCli
            /\ \E oauth1 \in ApiOAuth1Inputs,
                  access_tokens \in Options(AccessTokensInputs) :
                  mem = [MemInit EXCEPT
                            !.oauth1 = Some(oauth1),
                            !.consumer_info =
                                Some([consumer_key |-> oauth1.consumer_key,
                                      consumer_secret |-> oauth1.consumer_secret]),
                            !.access_tokens = access_tokens]
    /\ held = mem.access_tokens
    /\ log = <<>>
    /\ files = FilesInit
    /\ stderr = <<>>
    /\ exit_code = "none"
    /\ auth_result = "none"
    /\ failed = NotFailed

\* No run: the state of the flow while the library is called by itself.
RunIdle ==
    /\ pc = "none"
    /\ caller = "none"
    /\ cli = NoCli
    /\ mem = MemInit
    /\ held = None
    /\ log = <<>>
    /\ files = FilesInit
    /\ stderr = <<>>
    /\ exit_code = "none"
    /\ auth_result = "none"
    /\ failed = NotFailed

LibInit == LibIdle /\ RunIdle

Init == LibIdle /\ RunInit

(***************************************************************************)
(* What the claims are stated with.                                        *)
(***************************************************************************)
\* The members of a finite set of strings, each once, in ascending
\* byte-lexicographic order: the member with i - 1 members below it is i-th.
InAscendingOrder(S) ==
    [i \in 1..Cardinality(S) |->
        CHOOSE k \in S : Cardinality({x \in S : str_lt(x, k)}) = i - 1]

\* The OAuth parameters united with the query parameters, each key once; a
\* key of both has the value of the query parameters.
MergedMap(auth_params, queries) ==
    LET q == IF queries = None THEN EmptyMap ELSE queries[1]
    IN  [k \in DOMAIN auth_params \cup DOMAIN q |->
            IF k \in DOMAIN q THEN q[k] ELSE auth_params[k]]

\* key=value for every key of m in ascending key order, joined by "&".
ListedParams(m) ==
    LET keys == InAscendingOrder(DOMAIN m)
    IN  join_from([i \in 1..Len(keys) |-> keys[i] \o <<61>> \o m[keys[i]]],
                  1, <<38>>)

\* C1: gen_signature_base_string returns METHOD & percent_encode(url) &
\* percent_encode(P), P the key=value list of the merged map in ascending
\* key order joined by "&" with no trailing "&".
C1_BaseString ==
    op = "gen_signature_base_string" =>
        ret = arg.protocol \o <<38>> \o percent_encode(arg.url) \o <<38>>
              \o percent_encode(ListedParams(
                     MergedMap(arg.auth_params, arg.queries)))

\* A call with two OAuth parameters and a query map that shares a key with
\* them: three keys are listed, two "&" between them, none at the end.
C1_Witness ==
    /\ op = "gen_signature_base_string"
    /\ Cardinality(DOMAIN arg.auth_params) = 2
    /\ arg.queries # None
    /\ Cardinality(DOMAIN arg.queries[1] \cup DOMAIN arg.auth_params) = 3
    /\ DOMAIN arg.queries[1] \cap DOMAIN arg.auth_params # {}
    /\ ret[Len(ret)] # 54

\* name="value" for every name of params in ascending order, joined by ", ",
\* after "OAuth ".
ListedHeader(params) ==
    LET keys == InAscendingOrder(DOMAIN params)
    IN  S_OAuth_prefix
        \o join_from([i \in 1..Len(keys) |->
                         keys[i] \o <<61, 34>> \o params[keys[i]] \o <<34>>],
                     1, <<44, 32>>)

GenAuthOps ==
    {"gen_auth_for_request_token", "gen_auth_for_access_token",
     "gen_auth_for_rest_api"}

\* C2: the header each gen_auth_for_* returns is "OAuth " and one
\* name="value" entry per signed parameter, oauth_signature among them, in
\* ascending name order, separated by ", ", nothing after the last entry.
C2_Header ==
    (op \in GenAuthOps /\ ret.ok) =>
        /\ S_oauth_signature \in DOMAIN ret.val.params
        /\ ret.val.auth = ListedHeader(ret.val.params)

\* A REST header was returned: it starts with "OAuth o" and ends in '"'.
C2_Witness ==
    /\ op = "gen_auth_for_rest_api"
    /\ ret.ok
    /\ SubSeq(ret.val.auth, 1, 7) = S_OAuth_prefix \o <<111>>
    /\ ret.val.auth[Len(ret.val.auth)] = 34
    /\ arg.queries # None

\* C3 as stated: gen_signing_key returns percent_encode(cs) & "&" &
\* percent_encode(ts), ts the empty string when absent.
C3_AsStated ==
    op = "gen_signing_key" =>
        ret = percent_encode(arg.token) \o <<38>>
              \o percent_encode(IF arg.token_secret = None THEN <<>>
                                ELSE arg.token_secret[1])

\* C3 amended: gen_signing_key returns cs, "&" and ts unencoded (ts empty
\* when absent): the result is as long as both and the "&", starts with cs,
\* has "&" next and ends with ts; for the consumer secret of the tests and
\* no token secret it is that secret followed by "&".
C3_SigningKey ==
    op = "gen_signing_key" =>
        LET cs == arg.token
            ts == IF arg.token_secret = None THEN <<>> ELSE arg.token_secret[1]
        IN  /\ Len(ret) = Len(cs) + 1 + Len(ts)
            /\ SubSeq(ret, 1, Len(cs)) = cs
            /\ ret[Len(cs) + 1] = 38
            /\ SubSeq(ret, Len(cs) + 2, Len(ret)) = ts
            /\ (cs = T_CONSUMER_SECRET /\ arg.token_secret = None)
                   => ret = T_ANS_SIGNING_KEY

\* A consumer secret and a token secret that percent_encode would change.
C3_Witness ==
    /\ op = "gen_signing_key"
    /\ arg.token_secret # None
    /\ percent_encode(arg.token) # arg.token
    /\ percent_encode(arg.token_secret[1]) # arg.token_secret[1]

\* ASCII letters, digits and - _ . ~
Unreserved == (65..90) \cup (97..122) \cup (48..57) \cup {45, 95, 46, 126}

RECURSIVE EncodeAllButUnreserved(_, _)
\* Every byte from the i-th on: itself when unreserved, else its %XX triplet.
EncodeAllButUnreserved(s, i) ==
    IF i > Len(s) THEN <<>>
    ELSE (IF s[i] \in Unreserved THEN <<s[i]>>
          ELSE <<37, hex_digit(s[i] \div 16), hex_digit(s[i] % 16)>>)
         \o EncodeAllButUnreserved(s, i + 1)

\* C4: percent_encode passes a byte through if and only if it is an ASCII
\* letter, a digit or one of - _ . ~ and replaces every other byte by its
\* uppercase %XX triplet.
C4_OnlyUnreservedPass ==
    op = "percent_encode" => ret = EncodeAllButUnreserved(arg.string, 1)

BaseNames ==
    {S_oauth_consumer_key, S_oauth_signature_method, S_oauth_version,
     S_oauth_nonce, S_oauth_timestamp}

\* C5: the parameter names of the header are the five base names and
\* oauth_signature, with oauth_callback for the request-token request, with
\* oauth_token and oauth_verifier for the access-token request, with
\* oauth_token for a REST request, and no others.
C5_HeaderNames ==
    (op \in GenAuthOps /\ ret.ok) =>
        DOMAIN ret.val.params =
            BaseNames \cup {S_oauth_signature}
            \cup (CASE op = "gen_auth_for_request_token" -> {S_oauth_callback}
                    [] op = "gen_auth_for_access_token" ->
                           {S_oauth_token, S_oauth_verifier}
                    [] op = "gen_auth_for_rest_api" -> {S_oauth_token})

\* A REST header made with a query map that has a key of its own and the
\* key oauth_token.
C5_Witness ==
    /\ op = "gen_auth_for_rest_api"
    /\ ret.ok
    /\ arg.queries # None
    /\ Cardinality(DOMAIN arg.queries[1]) = 2
    /\ S_oauth_token \in DOMAIN arg.queries[1]

\* A piece of the body starts with the key and "=".
HasKey(body, key) ==
    \E i \in 1..Len(body) :
        /\ i = 1 \/ body[i - 1] = 38
        /\ i + Len(key) <= Len(body)
        /\ SubSeq(body, i, i + Len(key) - 1) = key
        /\ body[i + Len(key)] = 61

ParseOps == {"request_request_token", "request_access_token"}

\* C9 as stated: a body without the key oauth_token_secret yields the error
\* "response is not completed", whatever else it contains.
C9_AsStated ==
    (op \in ParseOps /\ arg.http_res.ok
        /\ ~HasKey(arg.http_res.val, S_oauth_token_secret)) =>
        (~ret.ok /\ ret.err = <<"response is not completed">>)

\* Every piece of the body has exactly one "=", and for request_request_token
\* a piece oauth_callback_confirmed=v has v "true" or "false".
WellFormedBody(o, body) ==
    LET pieces == split(body, 38)
    IN  \A n \in 1..Len(pieces) :
            /\ Cardinality({i \in 1..Len(pieces[n]) : pieces[n][i] = 61}) = 1
            /\ o = "request_request_token" =>
                   \A v \in ConfirmedInputs \ {S_true, S_false} :
                       pieces[n] # pair(S_oauth_callback_confirmed, v)

\* C9 amended: a body without the key oauth_token_secret yields an error and
\* no tokens; the error is "response is not completed" when every piece of
\* the body is one key=value pair and, for request_request_token, no
\* oauth_callback_confirmed value is other than "true" or "false".
C9_MissingSecret ==
    (op \in ParseOps /\ arg.http_res.ok
        /\ ~HasKey(arg.http_res.val, S_oauth_token_secret)) =>
        /\ ~ret.ok
        /\ WellFormedBody(op, arg.http_res.val) =>
               ret.err = <<"response is not completed">>

\* Both other keys are there, in well-formed pieces, and the secret is not.
C9_Witness ==
    /\ op = "request_request_token"
    /\ arg.http_res.ok
    /\ ~HasKey(arg.http_res.val, S_oauth_token_secret)
    /\ HasKey(arg.http_res.val, S_oauth_token)
    /\ HasKey(arg.http_res.val, S_oauth_callback_confirmed)
    /\ WellFormedBody(op, arg.http_res.val)
    /\ ret.err = <<"response is not completed">>

\* The body holds oauth_token=A, oauth_token_secret=B and
\* oauth_callback_confirmed=v, once each and in any places, and beside them
\* only pieces "x=1".
Holds(body, A, B, v) ==
    LET pieces == split(body, 38)
    IN  \E i, j, k \in 1..Len(pieces) :
            /\ i # j /\ j # k /\ i # k
            /\ pieces[i] = pair(S_oauth_token, A)
            /\ pieces[j] = pair(S_oauth_token_secret, B)
            /\ pieces[k] = pair(S_oauth_callback_confirmed, v)
            /\ \A l \in 1..Len(pieces) \ {i, j, k} : pieces[l] = <<120, 61, 49>>

\* C10: on a body holding oauth_token=A, oauth_token_secret=B and
\* oauth_callback_confirmed=v, request_request_token returns the token A,
\* the secret B and callback_confirmed true for v "true", false for v
\* "false", and an error for every other v, wherever the key stands.
C10_CallbackConfirmed ==
    (op = "request_request_token" /\ arg.http_res.ok) =>
        \A A \in TokenInputs, B \in {<<83>>}, v \in ConfirmedInputs :
            Holds(arg.http_res.val, A, B, v) =>
                IF v \in {S_true, S_false}
                THEN /\ ret.ok
                     /\ ret.val = [request_token |-> A,
                                   request_token_secret |-> B,
                                   callback_confirmed |-> (v = S_true)]
                ELSE ~ret.ok

\* The key oauth_callback_confirmed stands first, with the value "false".
C10_Witness ==
    /\ op = "request_request_token"
    /\ arg.http_res.ok
    /\ Holds(arg.http_res.val, <<66>>, <<83>>, S_false)
    /\ HasKey(SubSeq(arg.http_res.val, 1, 30), S_oauth_callback_confirmed)
    /\ ret.ok
    /\ ~ret.val.callback_confirmed

\* The same with a value that is neither "true" nor "false".
C10_WitnessOther ==
    /\ op = "request_request_token"
    /\ arg.http_res.ok
    /\ Holds(arg.http_res.val, <<65>>, <<83>>, <<109, 97, 121, 98, 101>>)
    /\ ~ret.ok

(***************************************************************************)
(* Properties of the run.                                                  *)
(***************************************************************************)
\* The place of a stage in the forward order.
StageRank(kind) ==
    CASE kind = "request_token" -> 1
      [] kind = "verifier" -> 2
      [] kind = "access_token" -> 3
      [] kind = "rest" -> 4

\* The positions of the log where a stage of this kind stands.
StagesOf(kind) == {i \in 1..Len(log) : log[i].kind = kind}

\* consumer_secret & token_secret, as a signing key is to be.
KeyOf(consumer_secret, token_secret) ==
    consumer_secret \o <<38>> \o token_secret

\* C6: the stages of a run stand in the order request-token request,
\* verifier prompt, access-token request, REST request, none of them twice;
\* an access-token request comes after a request-token response that was
\* parsed and after the prompt, carries the token of that response and is
\* signed with consumer_secret & the token secret of that response; a REST
\* request is sent only while AccessTokens are held.
C6_ForwardOnly ==
    /\ \A i, j \in 1..Len(log) :
          i < j => StageRank(log[i].kind) < StageRank(log[j].kind)
    /\ \A j \in StagesOf("access_token") :
          /\ \E k \in StagesOf("verifier") : k < j
          /\ \E i \in StagesOf("request_token") :
                LET parsed == request_request_token(log[i].res)
                IN  /\ i < j
                    /\ parsed.ok
                    /\ log[j].auth.params[S_oauth_token] =
                           parsed.val.request_token
                    /\ log[j].auth.signing_key =
                           KeyOf(unwrap(mem.oauth1).consumer_secret,
                                 parsed.val.request_token_secret)
    /\ \A j \in StagesOf("rest") : is_some(mem.access_tokens)

\* A run of main that went through the four stages.
C6_Witness ==
    /\ caller = "main"
    /\ Len(log) = 4
    /\ log[3].kind = "access_token"
    /\ log[4].kind = "rest"

\* C7: when the AccessTokens were possessed beforehand, no request went to
\* the request-token or the access-token endpoint, no verifier prompt was
\* shown, the tokens held are those possessed, and a REST request carries
\* the access_token and is signed with consumer_secret &
\* access_token_secret of those tokens.
C7_Bypass ==
    is_some(held) =>
        /\ \A i \in 1..Len(log) : log[i].kind = "rest"
        /\ mem.access_tokens = held
        /\ \A i \in StagesOf("rest") :
              /\ log[i].auth.params[S_oauth_token] = unwrap(held).access_token
              /\ log[i].auth.signing_key =
                     KeyOf(unwrap(mem.oauth1).consumer_secret,
                           unwrap(held).access_token_secret)

\* A ZaimApi that had its tokens set has sent its REST request.
C7_Witness ==
    /\ caller = "ZaimApi"
    /\ is_some(held)
    /\ auth_result = "Ok"
    /\ StagesOf("rest") # {}

\* main, given a token file that parsed, has sent its REST request.
C7_WitnessMain ==
    /\ caller = "main"
    /\ is_some(held)
    /\ StagesOf("rest") # {}

\* The steps of the flow that may fail.
FlowSteps ==
    {"gen_auth_for_request_token", "request_request_token", "read_line",
     "gen_auth_for_access_token", "request_access_token",
     "save_access_tokens", "request_rest_api"}

\* The steps that fail inside authenticate.
AuthenticateSteps ==
    {"gen_auth_for_request_token", "request_request_token", "read_line",
     "gen_auth_for_access_token", "request_access_token"}

AtMostOnce(kind) == Cardinality(StagesOf(kind)) <= 1

\* C8 as stated: each request is sent at most once, and once a step of the
\* flow has failed nothing more is sent, authenticate has returned an
\* error, no AccessTokens are held, and the run has ended.
C8_AsStated ==
    /\ AtMostOnce("request_token")
    /\ AtMostOnce("access_token")
    /\ AtMostOnce("rest")
    /\ failed.step \in FlowSteps =>
          /\ Len(log) = failed.log_len
          /\ auth_result = "Err"
          /\ ~is_some(mem.access_tokens)
          /\ caller = "main" => pc = "exit"

\* C8: each request is sent at most once; once a step of the flow has
\* failed nothing more is sent, and main has ended with FAILURE; when the
\* step failed inside authenticate, authenticate has returned an error and
\* no AccessTokens are held.
C8_NoRetry ==
    /\ AtMostOnce("request_token")
    /\ AtMostOnce("access_token")
    /\ AtMostOnce("rest")
    /\ failed.step \in FlowSteps =>
          /\ Len(log) = failed.log_len
          /\ caller = "main" => pc = "exit" /\ exit_code = "FAILURE"
    /\ failed.step \in AuthenticateSteps =>
          /\ auth_result = "Err"
          /\ ~is_some(mem.access_tokens)

\* The access-token step of main failed after the earlier stages.
C8_Witness ==
    /\ caller = "main"
    /\ failed.step = "request_access_token"
    /\ Len(log) = 3
    /\ pc = "exit"

\* Saving the tokens failed after authenticate had returned them.
C8_WitnessSave ==
    /\ failed.step = "save_access_tokens"
    /\ auth_result = "Ok"
    /\ is_some(mem.access_tokens)
    /\ exit_code = "FAILURE"

(***************************************************************************)
(* Properties of the transport call and of the exit of main.               *)
(***************************************************************************)
\* The success statuses.
Success2xx == 200..299

\* A request call whose request went out and met a response.
Answered == op = "request" /\ ret.sent /\ arg.net.send_ok

\* C11: when a response has come, request returns its body whenever the
\* status is a 2xx status (and the body could be read), and returns an
\* error carrying the status exactly when the status is not a 2xx status.
C11_SuccessIs2xx ==
    Answered =>
        /\ (arg.net.status \in Success2xx /\ arg.net.text_ok)
               => ret.res = Ok(arg.net.body)
        /\ (arg.net.status \notin Success2xx)
               <=> (/\ ~ret.res.ok
                    /\ ret.res.err =
                           <<"reqwest Error", ToString(arg.net.status)>>)

\* main has made its REST call with a method that is neither GET nor POST.
OtherMethodCalled ==
    /\ caller = "main"
    /\ cli.method # S_GET
    /\ cli.method # S_POST
    /\ is_some(mem.fetched_data)

\* C12 as stated: with a method other than GET and POST, request_rest_api
\* returns the "Unexpected protocol" error, no request is sent, the save
\* file is not written and main exits with FAILURE.
C12_AsStated ==
    OtherMethodCalled =>
        /\ ~unwrap(mem.fetched_data).ok
        /\ unwrap(mem.fetched_data).err = <<"Unexpected protocol">>
        /\ StagesOf("rest") = {}
        /\ files.save = None
        /\ exit_code = "FAILURE"

\* C12: with a method other than GET and POST, request_rest_api returns an
\* error, no request is sent, the save file is not written and main exits
\* with FAILURE; the error is "Unexpected protocol" unless the header could
\* not be generated or its value was refused as a header value.
C12_UnexpectedProtocol ==
    OtherMethodCalled =>
        LET fetched_data == unwrap(mem.fetched_data)
        IN  /\ ~fetched_data.ok
            /\ StagesOf("rest") = {}
            /\ files.save = None
            /\ exit_code = "FAILURE"
            /\ \/ fetched_data.err = <<"Unexpected protocol">>
               \/ fetched_data.err[1] = "Failed to generate auth"
               \/ /\ fetched_data.err = <<"reqwest Error", "InvalidHeaderValue">>
                  /\ ~header_value_ok(unwrap(mem.oauth1).consumer_key)

\* main was given PUT and a URI that does not parse, and got the
\* "Unexpected protocol" error.
C12_Witness ==
    /\ OtherMethodCalled
    /\ unwrap(mem.fetched_data).err = <<"Unexpected protocol">>
    /\ exit_code = "FAILURE"
    /\ pc = "exit"

\* Every step of main succeeded: the consumer info was read and parsed, the
\* query parsed when given, the tokens loaded or obtained and saved, the
\* REST request answered and its response written to the save path.
EveryStepSucceeded ==
    /\ is_some(mem.consumer_info)
    /\ is_some(cli.query) => is_some(mem.api_query_params)
    /\ is_some(mem.access_tokens)
    /\ ~cli.access_token => files.access_tokens_json = mem.access_tokens
    /\ is_some(mem.fetched_data)
    /\ unwrap(mem.fetched_data).ok
    /\ files.save = Some(unwrap(mem.fetched_data).val)

\* main ended with SUCCESS exactly when every step succeeded, and with
\* FAILURE only after a diagnostic.
ExitCodeTellsSuccess ==
    (caller = "main" /\ pc = "exit") =>
        /\ exit_code = "SUCCESS" <=> EveryStepSucceeded
        /\ exit_code # "SUCCESS" => stderr # <<>>

\* C13: main ends with SUCCESS exactly when every step succeeded, every
\* failure ends with a non-zero exit code after a diagnostic, and main
\* never ends in a panic.
C13_ExitCodes ==
    /\ ExitCodeTellsSuccess
    /\ caller = "main" => exit_code # "PANIC"

(***************************************************************************)
(* Properties of the encoder applied twice and of the REST header.         *)
(***************************************************************************)
\* The positions of s that hold a percent sign.
PercentSigns(s) == {i \in 1..Len(s) : s[i] = 37}

\* C14 as stated: percent_encode applied to its own result returns that
\* result unchanged.
C14_AsStated ==
    op = "percent_encode" => percent_encode(ret) = ret

\* C14: percent_encode applied to its own result returns it unchanged
\* exactly when the first application changed nothing; otherwise each
\* percent sign of the result is encoded again, as three bytes.
C14_EncodesAgain ==
    op = "percent_encode" =>
        LET twice == percent_encode(ret)
        IN  /\ (twice = ret) <=> (ret = arg.string)
            /\ Len(twice) = Len(ret) + 2 * Cardinality(PercentSigns(ret))
            /\ \A i \in PercentSigns(twice) :
                  SubSeq(twice, i, i + 2) = <<37, 50, 53>>

\* A string that percent_encode changed.
C14_Witness ==
    /\ op = "percent_encode"
    /\ ret # arg.string
    /\ percent_encode(ret) # ret
    /\ PercentSigns(ret) # {}

\* The name/value pairs a header carries besides oauth_signature.
HeaderPairs(params) ==
    [n \in (DOMAIN params) \ {S_oauth_signature} |-> params[n]]

\* C15: every name/value pair of a REST header other than oauth_signature
\* was covered by the signature: the signed parameter string is the list
\* of the header pairs merged with the query parameters, and under each
\* name of the header it has the value the header has.
C15_HeaderIsSigned ==
    (op = "gen_auth_for_rest_api" /\ ret.ok) =>
        LET sent == HeaderPairs(ret.val.params)
            signed == MergedMap(sent, arg.queries)
        IN  /\ ret.val.base =
                   arg.protocol \o <<38>> \o percent_encode(arg.url) \o <<38>>
                   \o percent_encode(ListedParams(signed))
            /\ \A n \in DOMAIN sent : signed[n] = sent[n]

\* The positions of the log that hold a request (not the prompt).
Requests == {i \in 1..Len(log) : log[i].kind # "verifier"}

\* What a signature base string starts with for a method and a URL.
BasePrefix(protocol, url) ==
    protocol \o <<38>> \o percent_encode(url) \o <<38>>

\* C16: every request that was sent went to the URL and with the method
\* that stand in the signature base string of its Authorization header.
C16_SentAsSigned ==
    \A i \in Requests :
        LET prefix == BasePrefix(log[i].protocol, log[i].url)
        IN  /\ log[i].url = log[i].auth.url
            /\ log[i].protocol = log[i].auth.protocol
            /\ Len(log[i].auth.base) >= Len(prefix)
            /\ SubSeq(log[i].auth.base, 1, Len(prefix)) = prefix

(***************************************************************************)
(* Specifications: the run of the program, and the library called by       *)
(* itself.                                                                 *)
(***************************************************************************)
Spec == Init /\ [][Next]_vars

SpecLib == LibInit /\ [][LibNext]_vars
=============================================================================
